---- MODULE Spec2Model ----
(***************************************************************************)
(* content-vector: chunker, transcript ingestion, vector store adapter and *)
(* query orchestrator, modelled from src/src/*.py.                         *)
(*                                                                         *)
(* A Python str is a sequence of one-character strings.  Positions in the  *)
(* definitions below are 0-based, as in the source.                        *)
(***************************************************************************)
EXTENDS Integers, Sequences, FiniteSets, TLC

\* ---------------------------------------------------------------- bounds
MaxLen == 6          \* longest text handed to chunk_text
MaxChunkSize == 5    \* largest chunk_size handed to chunk_text
MaxOverlap == 3      \* largest overlap handed to chunk_text
MaxChunks == 4       \* chunk_transcript stops being followed after this many chunks
StartFloor == 4      \* the cursor is not followed below -StartFloor

Alphabet == {"a", " ", ".", "\n"}
Whitespace == {" ", "\n"}

\* ------------------------------------------------------- Python builtins
Min(a, b) == IF a < b THEN a ELSE b
Max(a, b) == IF a > b THEN a ELSE b

\* a slice bound i of a sequence of length n: negative counts from the end,
\* then clamped to 0..n
NormIdx(i, n) ==
    IF i < 0 THEN Max(i + n, 0) ELSE Min(i, n)

\* s[i:j]
Slice(s, i, j) ==
    LET a == NormIdx(i, Len(s))
        b == NormIdx(j, Len(s))
    IN  IF a >= b THEN << >> ELSE SubSeq(s, a + 1, b)

\* s.strip()
RECURSIVE LStrip(_)
LStrip(s) ==
    IF s = << >> THEN << >>
    ELSE IF Head(s) \in Whitespace THEN LStrip(Tail(s)) ELSE s

RECURSIVE RStrip(_)
RStrip(s) ==
    IF s = << >> THEN << >>
    ELSE IF s[Len(s)] \in Whitespace THEN RStrip(SubSeq(s, 1, Len(s) - 1)) ELSE s

Strip(s) == RStrip(LStrip(s))

\* s[k:k+len(sub)] == sub, for 0 <= k and k + len(sub) <= len(s)
MatchAt(s, sub, k) == SubSeq(s, k + 1, k + Len(sub)) = sub

\* s.rfind(sub, lo, hi): scan k downwards from hi - len(sub) to lo
RECURSIVE RFindFrom(_, _, _, _)
RFindFrom(s, sub, a, k) ==
    IF k < a THEN -1
    ELSE IF MatchAt(s, sub, k) THEN k
    ELSE RFindFrom(s, sub, a, k - 1)

RFind(s, sub, lo, hi) ==
    LET a == NormIdx(lo, Len(s))
        b == NormIdx(hi, Len(s))
    IN  RFindFrom(s, sub, a, b - Len(sub))

\* ------------------------------------------------------------ chunker.py
\* the separators of chunk_text, in the order the loop tries them
Separators == << <<".", " ">>, <<"?", " ">>, <<"!", " ">>, <<"\n", "\n">>, <<"\n">> >>

VARIABLES
    arg_text,     \* chunk_text: the text argument
    chunk_size,   \* chunk_text: argument
    overlap,      \* chunk_text: argument
    text,         \* chunk_text: local text (stripped once the body has begun)
    start,        \* chunk_text: cursor
    pc,           \* chunk_text: "start", "loop" or "done"
    yielded,      \* what the latest step of chunk_text yielded: << >> or one chunk
    chunks,       \* chunk_transcript: the list built from the yields
    collection,   \* vectordb: the records of the collection, oldest first
    exists,       \* vectordb: whether the collection exists on the storage path
    call,         \* vectordb/query: the latest operation invoked and its arguments
    ret,          \* vectordb/query: what that operation returned
    llm_calls,    \* query: the provider calls (ask_openai / ask_anthropic) the latest operation made
    ctx_results,  \* build_context: the results argument
    max_chars,    \* build_context: argument
    context,      \* build_context: the string returned
    ctx_pc,       \* build_context: "start" or "done"
    path,         \* transcribe_folder: what the folder argument names on disk
    output_dir,   \* transcribe_folder: whether output_dir is given
    files,        \* transcribe_folder: get_media_files(folder)
    idx,          \* transcribe_folder: position of the for loop in files (from 1)
    results,      \* transcribe_folder: the list returned
    engine_calls, \* transcribe_folder: the transcribe_file calls made, with their outcome
    errors,       \* transcribe_folder: the files named in the printed error lines
    tpc,          \* transcribe_folder: "start", "loop", "done" or "raised"
    exclusive,    \* whether at most one add_chunks runs on the storage path at a time
    wpc,          \* per writer, its add_chunks: "idle", "counted" (count read, ids built) or "returned"
    w_chunks,     \* per writer, add_chunks: the chunks argument
    w_ids         \* per writer, add_chunks: the ids list

chunkerVars == <<arg_text, chunk_size, overlap, text, start, pc, yielded, chunks>>
storeVars == <<collection, exists, call, ret, llm_calls>>
contextVars == <<ctx_results, max_chars, context, ctx_pc>>
folderVars == <<path, output_dir, files, idx, results, engine_calls, errors, tpc>>
writerVars == <<exclusive, wpc, w_chunks, w_ids>>
vars == <<chunkerVars, storeVars, contextVars, folderVars, writerVars>>

Texts == UNION {[1..n -> Alphabet] : n \in 0..MaxLen}

\* BreakAt searching the whole window from the cursor on
RECURSIVE BreakAt_WholeWindow(_, _, _, _, _)
BreakAt_WholeWindow(s, st, cs, end, i) ==
    IF i > Len(Separators) THEN end
    ELSE LET sep == Separators[i]
             last_sep == RFind(s, sep, st, end)
         IN  IF last_sep # -1 THEN last_sep + Len(sep)
             ELSE BreakAt_WholeWindow(s, st, cs, end, i + 1)

\* the for-sep loop: end after the last occurrence of the first separator
\* found in text[start + chunk_size // 2 : end]
RECURSIVE BreakAt(_, _, _, _, _)
BreakAt(s, st, cs, end, i) ==
    IF i > Len(Separators) THEN end
    ELSE LET sep == Separators[i]
             last_sep == RFind(s, sep, st + (cs \div 2), end)
         IN  IF last_sep # -1 THEN last_sep + Len(sep)
             ELSE BreakAt(s, st, cs, end, i + 1)

\* end of the chunk that starts at st
ChunkEnd(s, st, cs) ==
    LET end == st + cs
    IN  IF end < Len(s) THEN BreakAt(s, st, cs, end, 1) ELSE end

Yield(chunk, st, end) == << [chunk |-> chunk, start |-> st, end |-> end] >>

\* chunk_text up to the loop: empty input, strip, the one-chunk case
GenBegin ==
    /\ pc = "start"
    /\ IF text = << >>
       THEN /\ pc' = "done"
            /\ yielded' = << >>
            /\ text' = text
       ELSE LET stripped == Strip(text)
            IN  /\ text' = stripped
                /\ IF Len(stripped) <= chunk_size
                   THEN /\ yielded' = Yield(stripped, 0, Len(stripped))
                        /\ pc' = "done"
                   ELSE /\ yielded' = << >>
                        /\ pc' = "loop"
    /\ start' = 0
    /\ UNCHANGED <<arg_text, chunk_size, overlap>>

\* one iteration of the while loop
GenLoop ==
    /\ pc = "loop"
    /\ start >= -StartFloor
    /\ IF start < Len(text)
       THEN LET end == ChunkEnd(text, start, chunk_size)
                chunk == Strip(Slice(text, start, end))
            IN  /\ yielded' = IF chunk # << >> THEN Yield(chunk, start, end) ELSE << >>
                /\ start' = end - overlap
                /\ pc' = IF end - overlap >= Len(text) THEN "done" ELSE "loop"
       ELSE /\ yielded' = << >>
            /\ start' = start
            /\ pc' = "done"
    /\ UNCHANGED <<arg_text, chunk_size, overlap, text>>

\* chunk_text driven by a consumer that keeps nothing
NextGen ==
    \/ GenBegin /\ UNCHANGED <<chunks, storeVars, contextVars, folderVars, writerVars>>
    \/ GenLoop /\ UNCHANGED <<chunks, storeVars, contextVars, folderVars, writerVars>>

\* the transcript handed to chunk_transcript (its text is arg_text)
TranscriptFile == "a.mp4"
TranscriptPath == "media/a.mp4"
TranscriptLanguage == "en"

\* chunk_transcript: the body of its for loop, run on each yield; start and
\* end are chunk_text's locals at the yield
Collect(list, y) ==
    IF y = << >> THEN list
    ELSE Append(list, [text |-> y[1].chunk,
                       source_file |-> TranscriptFile,
                       source_path |-> TranscriptPath,
                       chunk_index |-> Len(list),
                       language |-> TranscriptLanguage,
                       start |-> y[1].start,
                       end |-> y[1].end])

\* chunk_transcript advancing chunk_text by one step
CtBegin ==
    /\ GenBegin
    /\ chunks' = Collect(chunks, yielded')
    /\ UNCHANGED <<storeVars, contextVars, folderVars, writerVars>>

CtLoop ==
    /\ Len(chunks) < MaxChunks
    /\ GenLoop
    /\ chunks' = Collect(chunks, yielded')
    /\ UNCHANGED <<storeVars, contextVars, folderVars, writerVars>>

NextTranscript == CtBegin \/ CtLoop

\* ----------------------------------------------------------- vectordb.py
MaxRecords == 3      \* the collection is not followed beyond this many records
MaxBatch == 2        \* longest chunk list handed to add_chunks
MaxResults == 2      \* largest n_results handed to ask
BigLen == 3990       \* length of the long chunk text

batch_size == 100

Rep(c, n) == [i \in 1..n |-> c]

\* the chunk dicts handed to add_chunks (chunk_transcript's output shape)
ChunkPool ==
    { [text |-> <<"a">>, source_file |-> <<"v", "1">>, source_path |-> <<"m", "/", "v", "1">>,
       chunk_index |-> 0, language |-> "en"],
      [text |-> Rep("a", BigLen), source_file |-> <<"v", "2">>, source_path |-> <<"m", "/", "v", "2">>,
       chunk_index |-> 0, language |-> "en"] }

Batches == UNION {[1..n -> ChunkPool] : n \in 0..MaxBatch}

\* f"chunk_{n}"
ChunkId(n) == <<"chunk_", n>>

\* ChunkIds numbering every call from 0
ChunkIds_NoOffset(existing_count, n) == [i \in 1..n |-> ChunkId(i - 1)]

\* the ids list of add_chunks: chunk_{existing_count + i} for the i-th chunk
ChunkIds(existing_count, n) == [i \in 1..n |-> ChunkId(existing_count + (i - 1))]

\* the metadatas list of add_chunks
Metadata(chunk) ==
    [source_file |-> chunk.source_file, source_path |-> chunk.source_path,
     chunk_index |-> chunk.chunk_index, language |-> chunk.language]

\* collection.add(ids, documents, metadatas): records are appended in order;
\* a record whose id the collection already holds is not added
RECURSIVE CollectionAdd(_, _, _, _)
CollectionAdd(recs, ids, documents, metadatas) ==
    IF ids = << >> THEN recs
    ELSE LET held == {recs[j].id : j \in 1..Len(recs)}
             next == IF Head(ids) \in held THEN recs
                     ELSE Append(recs, [id |-> Head(ids), document |-> Head(documents),
                                        metadata |-> Head(metadatas)])
         IN  CollectionAdd(next, Tail(ids), Tail(documents), Tail(metadatas))

\* the batch loop of add_chunks, from offset i
RECURSIVE AddBatches(_, _, _, _, _)
AddBatches(recs, ids, documents, metadatas, i) ==
    IF i >= Len(ids) THEN recs
    ELSE LET end == Min(i + batch_size, Len(ids))
         IN  AddBatches(CollectionAdd(recs, SubSeq(ids, i + 1, end),
                                      SubSeq(documents, i + 1, end),
                                      SubSeq(metadatas, i + 1, end)),
                        ids, documents, metadatas, i + batch_size)

\* add_chunks(chunks) by the one writer of the storage path
AddChunks(batch) ==
    LET existing_count == Len(collection)
        ids == ChunkIds(existing_count, Len(batch))
        documents == [i \in 1..Len(batch) |-> batch[i].text]
        metadatas == [i \in 1..Len(batch) |-> Metadata(batch[i])]
    IN  /\ Len(collection) + Len(batch) <= MaxRecords
        /\ collection' = AddBatches(collection, ids, documents, metadatas, 0)
        /\ exists' = TRUE
        /\ call' = [op |-> "add_chunks", chunks |-> batch]
        /\ ret' = [op |-> "add_chunks", value |-> Len(ids)]
        /\ llm_calls' = << >>

\* clear_database(): delete_collection, a missing collection is not an error
ClearDatabase ==
    /\ collection' = << >>
    /\ exists' = FALSE
    /\ call' = [op |-> "clear_database"]
    /\ ret' = [op |-> "clear_database"]
    /\ llm_calls' = << >>

\* the orderings collection.query may return: n distinct records, best first,
\* the ranking being the engine's
Rankings(recs, n) ==
    {r \in [1..Min(n, Len(recs)) -> 1..Len(recs)] :
        \A i, j \in DOMAIN r : i # j => r[i] # r[j]}

\* query_similar: the formatted results for one ranking (empty collection: [])
QuerySimilar(recs, ranking) ==
    IF Len(recs) = 0 THEN << >>
    ELSE [i \in DOMAIN ranking |->
             [id |-> recs[ranking[i]].id,
              text |-> recs[ranking[i]].document,
              metadata |-> recs[ranking[i]].metadata]]

\* -------------------------------------------------------------- query.py
DefaultMaxChars == 8000

SourceOpen == <<"[", "S", "o", "u", "r", "c", "e", ":", " ">>
SourceClose == <<"]", "\n">>
Newline == <<"\n">>
PartSeparator == <<"\n", "-", "-", "-", "\n">>
Unknown == <<"u", "n", "k", "n", "o", "w", "n">>

\* d.get(key, default)
Get(d, key, default) == IF key \in DOMAIN d THEN d[key] ELSE default

\* f"[Source: {source}]\n{text}\n" for one result
Part(r) ==
    SourceOpen \o Get(r.metadata, "source_file", Unknown) \o SourceClose \o r.text \o Newline

\* the for loop of build_context from result i on: context_parts
RECURSIVE ContextParts(_, _, _, _, _)
ContextParts(rs, limit, i, context_parts, total_chars) ==
    IF i > Len(rs) THEN context_parts
    ELSE LET part == Part(rs[i])
         IN  IF total_chars + Len(part) > limit THEN context_parts
             ELSE ContextParts(rs, limit, i + 1,
                               Append(context_parts, part), total_chars + Len(part))

\* sep.join(parts)
RECURSIVE Join(_, _)
Join(sep, parts) ==
    IF parts = << >> THEN << >>
    ELSE IF Len(parts) = 1 THEN parts[1]
    ELSE parts[1] \o sep \o Join(sep, Tail(parts))

BuildContext(rs, limit) ==
    Join(PartSeparator, ContextParts(rs, limit, 1, << >>, 0))

NoContentAnswer ==
    [op |-> "ask", status |-> "returned",
     answer |-> "No content found in the database. Please ingest some videos first.",
     sources |-> {}, context_chunks |-> 0]

Providers == {"openai", "anthropic"}
Models == {"", "my-model"}      \* "" stands for no model override

\* the provider function ask picks, and the model it passes
ProviderCall(question, provider, model, ctx) ==
    IF provider = "openai"
    THEN [fn |-> "ask_openai", question |-> question, context |-> ctx,
          model |-> IF model # "" THEN model ELSE "gpt-4o-mini"]
    ELSE [fn |-> "ask_anthropic", question |-> question, context |-> ctx,
          model |-> IF model # "" THEN model ELSE "claude-sonnet-4-20250514"]

\* AskOutcome without the early return on no results
AskOutcome_NoEarlyReturn(rs, question, provider, model, llm_ok) ==
    LET ctx == BuildContext(rs, DefaultMaxChars)
        sources == {Get(rs[i].metadata, "source_file", Unknown) : i \in 1..Len(rs)}
    IN  [calls |-> << ProviderCall(question, provider, model, ctx) >>,
         ret |-> IF llm_ok
                 THEN [op |-> "ask", status |-> "returned", answer |-> "llm answer",
                       sources |-> sources, context_chunks |-> Len(rs)]
                 ELSE [op |-> "ask", status |-> "raised", answer |-> "",
                       sources |-> {}, context_chunks |-> 0]]

\* ask after query_similar has returned its results (rs): the provider calls it makes
\* and what it returns (llm_ok: the provider call did not raise)
AskOutcome(rs, question, provider, model, llm_ok) ==
    IF rs = << >>
    THEN [calls |-> << >>, ret |-> NoContentAnswer]
    ELSE LET ctx == BuildContext(rs, DefaultMaxChars)
             sources == {Get(rs[i].metadata, "source_file", Unknown) : i \in 1..Len(rs)}
         IN  [calls |-> << ProviderCall(question, provider, model, ctx) >>,
              ret |-> IF llm_ok
                      THEN [op |-> "ask", status |-> "returned", answer |-> "llm answer",
                            sources |-> sources, context_chunks |-> Len(rs)]
                      ELSE [op |-> "ask", status |-> "raised", answer |-> "",
                            sources |-> {}, context_chunks |-> 0]]

\* ask(question, provider, n_results, model)
Ask(provider, n_results, model) ==
    \E ranking \in Rankings(collection, n_results), llm_ok \in BOOLEAN :
        LET rs == QuerySimilar(collection, ranking)
            out == AskOutcome(rs, "q", provider, model, llm_ok)
        IN  /\ llm_calls' = out.calls
            /\ ret' = out.ret
            /\ call' = [op |-> "ask", provider |-> provider, n_results |-> n_results,
                        model |-> model]
            /\ exists' = TRUE
            /\ UNCHANGED collection

\* the processes that may run add_chunks on the one storage path
Writers == {1, 2}

\* add_chunks of writer w up to the end of its for loop: the count is read
\* and the ids are built from it
WCount(w, batch) ==
    /\ wpc[w] # "counted"
    /\ exclusive => \A o \in Writers : wpc[o] # "counted"
    /\ Len(collection) + Len(batch) <= MaxRecords
    /\ LET existing_count == Len(collection)
       IN  w_ids' = [w_ids EXCEPT ![w] = ChunkIds(existing_count, Len(batch))]
    /\ w_chunks' = [w_chunks EXCEPT ![w] = batch]
    /\ wpc' = [wpc EXCEPT ![w] = "counted"]
    /\ exists' = TRUE
    /\ UNCHANGED <<collection, call, ret, llm_calls, exclusive>>

\* add_chunks of writer w from its batch loop to its return
WAdd(w) ==
    /\ wpc[w] = "counted"
    /\ LET documents == [i \in 1..Len(w_chunks[w]) |-> w_chunks[w][i].text]
           metadatas == [i \in 1..Len(w_chunks[w]) |-> Metadata(w_chunks[w][i])]
       IN  collection' = AddBatches(collection, w_ids[w], documents, metadatas, 0)
    /\ wpc' = [wpc EXCEPT ![w] = "returned"]
    /\ call' = [op |-> "add_chunks", chunks |-> w_chunks[w]]
    /\ ret' = [op |-> "add_chunks", value |-> Len(w_ids[w])]
    /\ llm_calls' = << >>
    /\ UNCHANGED <<exists, exclusive, w_chunks, w_ids>>

NextWriters ==
    \/ \E w \in Writers, batch \in Batches :
          WCount(w, batch) /\ UNCHANGED <<chunkerVars, contextVars, folderVars>>
    \/ \E w \in Writers : WAdd(w) /\ UNCHANGED <<chunkerVars, contextVars, folderVars>>

NextStore ==
    \/ \E batch \in Batches : AddChunks(batch) /\ UNCHANGED <<chunkerVars, contextVars, folderVars, writerVars>>
    \/ ClearDatabase /\ UNCHANGED <<chunkerVars, contextVars, folderVars, writerVars>>
    \/ \E provider \in Providers, n_results \in 1..MaxResults, model \in Models :
          Ask(provider, n_results, model) /\ UNCHANGED <<chunkerVars, contextVars, folderVars, writerVars>>

\* build_context as a call of its own
MaxCtxResults == 2   \* longest results list handed to build_context
MaxBudget == 30      \* largest max_chars handed to build_context

CtxResultPool ==
    {[text |-> t, metadata |-> m] :
        t \in {<< >>, <<"a">>, <<"a", "b">>},
        m \in {[source_file |-> <<"v">>, language |-> "en"], [language |-> "en"]}}

BuildContextCall ==
    /\ ctx_pc = "start"
    /\ context' = BuildContext(ctx_results, max_chars)
    /\ ctx_pc' = "done"
    /\ UNCHANGED <<ctx_results, max_chars, chunkerVars, storeVars, folderVars, writerVars>>

NextContext == BuildContextCall

\* ---------------------------------------------------------- transcribe.py
SUPPORTED_EXTENSIONS == {".mp4", ".mkv", ".avi", ".mov", ".webm", ".mp3", ".wav", ".m4a", ".flac"}

\* ext.upper() / suffix.lower() on the extensions that occur
Upper(ext) ==
    CASE ext = ".mp4" -> ".MP4" [] ext = ".mkv" -> ".MKV" [] ext = ".avi" -> ".AVI"
      [] ext = ".mov" -> ".MOV" [] ext = ".webm" -> ".WEBM" [] ext = ".mp3" -> ".MP3"
      [] ext = ".wav" -> ".WAV" [] ext = ".m4a" -> ".M4A" [] ext = ".flac" -> ".FLAC"
      [] OTHER -> ext

Lower(ext) ==
    CASE ext = ".MP3" -> ".mp3" [] ext = ".Wav" -> ".wav" [] OTHER -> ext

\* directory entries: the stem (its number is its sort position) and suffix
Entries ==
    { [stem |-> 1, ext |-> ".mp4"], [stem |-> 2, ext |-> ".txt"],
      [stem |-> 3, ext |-> ".MP3"], [stem |-> 4, ext |-> ".Wav"],
      [stem |-> 5, ext |-> ".flac"] }

\* sorted(files)
RECURSIVE Sorted(_)
Sorted(S) ==
    IF S = {} THEN << >>
    ELSE LET m == CHOOSE x \in S : \A y \in S : x.stem <= y.stem
         IN  <<m>> \o Sorted(S \ {m})

\* get_media_files: [raised |-> TRUE] for the two ValueErrors
GetMediaFiles(p) ==
    IF p.kind = "missing" THEN [raised |-> TRUE, files |-> << >>]
    ELSE IF p.kind = "file"
    THEN LET f == CHOOSE e \in p.entries : TRUE
         IN  IF Lower(f.ext) \in SUPPORTED_EXTENSIONS
             THEN [raised |-> FALSE, files |-> <<f>>]
             ELSE [raised |-> TRUE, files |-> << >>]
    ELSE LET globbed == {e \in p.entries :
                            \E ext \in SUPPORTED_EXTENSIONS : e.ext = ext \/ e.ext = Upper(ext)}
         IN  [raised |-> FALSE, files |-> Sorted(globbed)]

\* the dict transcribe_file returns for a file (text, segments and language
\* are the engine's)
Transcript(f) == [file |-> f, path |-> f, text |-> "text", language |-> "en"]

Paths ==
    {[kind |-> "missing", entries |-> {}]}
    \cup {[kind |-> "file", entries |-> {e}] : e \in Entries}
    \cup {[kind |-> "dir", entries |-> S] : S \in SUBSET Entries}

\* transcribe_folder up to the for loop
TfBegin ==
    /\ tpc = "start"
    /\ LET got == GetMediaFiles(path)
       IN  /\ files' = got.files
           /\ tpc' = IF got.raised \/ got.files = << >> THEN "raised" ELSE "loop"
    /\ UNCHANGED <<path, output_dir, idx, results, engine_calls, errors,
                   chunkerVars, storeVars, contextVars, writerVars>>

\* TfStep with a transcription failure ending the run
TfStep_AbortOnError ==
    /\ tpc = "loop"
    /\ \E transcribed \in BOOLEAN, saved \in BOOLEAN :
          LET file_path == files[idx]
          IN  /\ engine_calls' = Append(engine_calls, [file |-> file_path, ok |-> transcribed])
              /\ results' = IF transcribed THEN Append(results, Transcript(file_path))
                            ELSE results
              /\ errors' = IF transcribed /\ (~output_dir \/ saved) THEN errors
                           ELSE Append(errors, file_path)
              /\ tpc' = IF ~transcribed THEN "raised"
                        ELSE IF idx + 1 > Len(files) THEN "done" ELSE "loop"
    /\ idx' = idx + 1
    /\ UNCHANGED <<path, output_dir, files, chunkerVars, storeVars, contextVars, writerVars>>

\* one iteration of the for loop: transcribe_file returns or raises, and with
\* output_dir the save of the transcript succeeds or raises
TfStep ==
    /\ tpc = "loop"
    /\ \E transcribed \in BOOLEAN, saved \in BOOLEAN :
          LET file_path == files[idx]
          IN  /\ engine_calls' = Append(engine_calls, [file |-> file_path, ok |-> transcribed])
              /\ results' = IF transcribed THEN Append(results, Transcript(file_path))
                            ELSE results
              /\ errors' = IF transcribed /\ (~output_dir \/ saved) THEN errors
                           ELSE Append(errors, file_path)
    /\ idx' = idx + 1
    /\ tpc' = IF idx + 1 > Len(files) THEN "done" ELSE "loop"
    /\ UNCHANGED <<path, output_dir, files, chunkerVars, storeVars, contextVars, writerVars>>

NextFolder == TfBegin \/ TfStep

\* ------------------------------------------------------- specifications
\* a call of chunk_text: any text, chunk_size and overlap within the bounds;
\* nothing stored, build_context and transcribe_folder not in use
InitChunker ==
    /\ arg_text \in Texts
    /\ chunk_size \in 0..MaxChunkSize
    /\ overlap \in 0..MaxOverlap
    /\ text = arg_text
    /\ start = 0
    /\ pc = "start"
    /\ yielded = << >>
    /\ chunks = << >>
    /\ collection = << >> /\ exists = FALSE
    /\ call = [op |-> "none"] /\ ret = [op |-> "none"] /\ llm_calls = << >>
    /\ ctx_results = << >> /\ max_chars = 0 /\ context = << >> /\ ctx_pc = "done"
    /\ path = [kind |-> "missing", entries |-> {}] /\ output_dir = FALSE
    /\ files = << >> /\ idx = 1 /\ results = << >> /\ engine_calls = << >>
    /\ errors = << >> /\ tpc = "done"
    /\ exclusive = TRUE /\ wpc = [w \in Writers |-> "idle"]
    /\ w_chunks = [w \in Writers |-> << >>] /\ w_ids = [w \in Writers |-> << >>]

\* a storage path on which nothing has been stored yet
InitStore ==
    /\ arg_text = << >> /\ chunk_size = 0 /\ overlap = 0 /\ text = << >>
    /\ start = 0 /\ pc = "done" /\ yielded = << >> /\ chunks = << >>
    /\ collection = << >> /\ exists = FALSE
    /\ call = [op |-> "none"] /\ ret = [op |-> "none"] /\ llm_calls = << >>
    /\ ctx_results = << >> /\ max_chars = 0 /\ context = << >> /\ ctx_pc = "done"
    /\ path = [kind |-> "missing", entries |-> {}] /\ output_dir = FALSE
    /\ files = << >> /\ idx = 1 /\ results = << >> /\ engine_calls = << >>
    /\ errors = << >> /\ tpc = "done"
    /\ exclusive = TRUE /\ wpc = [w \in Writers |-> "idle"]
    /\ w_chunks = [w \in Writers |-> << >>] /\ w_ids = [w \in Writers |-> << >>]

\* a call of build_context: any results and max_chars within the bounds
InitContext ==
    /\ arg_text = << >> /\ chunk_size = 0 /\ overlap = 0 /\ text = << >>
    /\ start = 0 /\ pc = "done" /\ yielded = << >> /\ chunks = << >>
    /\ collection = << >> /\ exists = FALSE
    /\ call = [op |-> "none"] /\ ret = [op |-> "none"] /\ llm_calls = << >>
    /\ ctx_results \in UNION {[1..n -> CtxResultPool] : n \in 0..MaxCtxResults}
    /\ max_chars \in 0..MaxBudget
    /\ context = << >>
    /\ ctx_pc = "start"
    /\ path = [kind |-> "missing", entries |-> {}] /\ output_dir = FALSE
    /\ files = << >> /\ idx = 1 /\ results = << >> /\ engine_calls = << >>
    /\ errors = << >> /\ tpc = "done"
    /\ exclusive = TRUE /\ wpc = [w \in Writers |-> "idle"]
    /\ w_chunks = [w \in Writers |-> << >>] /\ w_ids = [w \in Writers |-> << >>]

\* a call of transcribe_folder: any path, with or without output_dir
InitFolder ==
    /\ arg_text = << >> /\ chunk_size = 0 /\ overlap = 0 /\ text = << >>
    /\ start = 0 /\ pc = "done" /\ yielded = << >> /\ chunks = << >>
    /\ collection = << >> /\ exists = FALSE
    /\ call = [op |-> "none"] /\ ret = [op |-> "none"] /\ llm_calls = << >>
    /\ ctx_results = << >> /\ max_chars = 0 /\ context = << >> /\ ctx_pc = "done"
    /\ path \in Paths
    /\ output_dir \in BOOLEAN
    /\ files = << >> /\ idx = 1 /\ results = << >> /\ engine_calls = << >>
    /\ errors = << >> /\ tpc = "start"
    /\ exclusive = TRUE /\ wpc = [w \in Writers |-> "idle"]
    /\ w_chunks = [w \in Writers |-> << >>] /\ w_ids = [w \in Writers |-> << >>]

\* a storage path on which nothing has been stored yet, used by the writers
\* one at a time (exclusive) or with no coordination
InitWriters ==
    /\ arg_text = << >> /\ chunk_size = 0 /\ overlap = 0 /\ text = << >>
    /\ start = 0 /\ pc = "done" /\ yielded = << >> /\ chunks = << >>
    /\ collection = << >> /\ exists = FALSE
    /\ call = [op |-> "none"] /\ ret = [op |-> "none"] /\ llm_calls = << >>
    /\ ctx_results = << >> /\ max_chars = 0 /\ context = << >> /\ ctx_pc = "done"
    /\ path = [kind |-> "missing", entries |-> {}] /\ output_dir = FALSE
    /\ files = << >> /\ idx = 1 /\ results = << >> /\ engine_calls = << >>
    /\ errors = << >> /\ tpc = "done"
    /\ exclusive \in BOOLEAN /\ wpc = [w \in Writers |-> "idle"]
    /\ w_chunks = [w \in Writers |-> << >>] /\ w_ids = [w \in Writers |-> << >>]

\* chunk_text alone
Spec == InitChunker /\ [][NextGen]_vars /\ WF_vars(NextGen)

\* chunk_transcript driving chunk_text
SpecTranscript == InitChunker /\ [][NextTranscript]_vars

\* one process using add_chunks, clear_database and ask on a storage path
SpecStore == InitStore /\ [][NextStore]_vars

\* two processes using add_chunks on the same storage path
SpecWriters == InitWriters /\ [][NextWriters]_vars

\* build_context
SpecContext == InitContext /\ [][NextContext]_vars

\* transcribe_folder
SpecFolder == InitFolder /\ [][NextFolder]_vars

\* ------------------------------------------------------ chunker claims
Stripped(s) == s # << >> => (s[1] \notin Whitespace /\ s[Len(s)] \notin Whitespace)

\* C1: with chunk_size >= 1 and 0 <= overlap < chunk_size every call of
\* chunk_text terminates.  An iteration is a function of the cursor alone, so
\* a terminating call has no iteration that leaves the cursor where it was.
C1_Terminates ==
    [][(pc = "loop" /\ pc' = "loop" /\ chunk_size >= 1 /\ overlap >= 0
            /\ overlap < chunk_size) => start' # start]_vars

\* C2: with overlap >= chunk_size and a text longer than chunk_size,
\* chunk_text fails before it yields any chunk.
C2_FailsFast ==
    (overlap >= chunk_size /\ Len(Strip(arg_text)) > chunk_size)
        => yielded = << >>

\* C4: no yielded chunk is empty or has leading or trailing whitespace, and
\* an empty text yields nothing.
C4_NoEmptyChunk ==
    /\ yielded # << >> =>
          /\ yielded[1].chunk # << >>
          /\ Stripped(yielded[1].chunk)
    /\ arg_text = << >> => yielded = << >>

\* positions k of the window text[lo:hi] at which sep occurs
WindowOcc(s, sep, lo, hi) ==
    {k \in NormIdx(lo, Len(s))..(NormIdx(hi, Len(s)) - Len(sep)) : MatchAt(s, sep, k)}

SetMax(S) == CHOOSE x \in S : \A y \in S : y <= x
SetMin(S) == CHOOSE x \in S : \A y \in S : x <= y

\* the yield came from a loop iteration whose window ends before the text does
WindowedYield ==
    /\ yielded # << >>
    /\ Len(text) > chunk_size
    /\ yielded[1].start + chunk_size < Len(text)

\* C10 as stated: a windowed chunk ends directly after the last position in
\* its window at which any of the separators occurs, at start + chunk_size
\* if none occurs; no chunk is longer than chunk_size.
C10_EndsAfterLastSeparator ==
    /\ WindowedYield =>
          LET st == yielded[1].start
              lo == st + (chunk_size \div 2)
              hi == st + chunk_size
              found == {i \in 1..Len(Separators) :
                           WindowOcc(text, Separators[i], lo, hi) # {}}
              last == SetMax(UNION {WindowOcc(text, Separators[i], lo, hi) : i \in found})
          IN  IF found = {} THEN yielded[1].end = hi
              ELSE \E i \in found :
                      /\ last \in WindowOcc(text, Separators[i], lo, hi)
                      /\ yielded[1].end = last + Len(Separators[i])
    /\ yielded # << >> => Len(yielded[1].chunk) <= chunk_size

\* C10 (amended): a windowed chunk ends directly after the last occurrence,
\* in its window text[start + chunk_size // 2 : start + chunk_size], of the
\* first separator in the order '. ', '? ', '! ', blank line, newline that
\* occurs there at all, and at start + chunk_size if none occurs; no chunk is
\* longer than chunk_size.
C10_EndsAfterFirstRankedSeparator ==
    /\ WindowedYield =>
          LET st == yielded[1].start
              lo == st + (chunk_size \div 2)
              hi == st + chunk_size
              found == {i \in 1..Len(Separators) :
                           WindowOcc(text, Separators[i], lo, hi) # {}}
          IN  IF found = {} THEN yielded[1].end = hi
              ELSE LET i == SetMin(found)
                   IN  yielded[1].end =
                           SetMax(WindowOcc(text, Separators[i], lo, hi)) + Len(Separators[i])
    /\ yielded # << >> => Len(yielded[1].chunk) <= chunk_size

\* a chunk was cut after '. ' although a newline occurs later in its window
C10_Witness ==
    /\ WindowedYield
    /\ LET lo == yielded[1].start + (chunk_size \div 2)
           hi == yielded[1].start + chunk_size
           dots == WindowOcc(text, Separators[1], lo, hi)
           nls == WindowOcc(text, Separators[5], lo, hi)
       IN  /\ dots # {}
           /\ nls # {}
           /\ SetMax(nls) > SetMax(dots)
           /\ yielded[1].end = SetMax(dots) + 2

\* C3: for a non-empty text and 0 <= overlap < chunk_size the chunks of a
\* finished run are the trimmed substrings text[start:end] of ranges that
\* begin at 0, each begin at the previous end minus overlap, reach the end of
\* the text and so cover every position of it.
C3_RangesCoverText ==
    (pc = "done" /\ arg_text # << >> /\ overlap < chunk_size) =>
        /\ \A i \in 1..Len(chunks) :
              /\ chunks[i].text = Strip(Slice(text, chunks[i].start, chunks[i].end))
              /\ chunks[i].start = IF i = 1 THEN 0 ELSE chunks[i - 1].end - overlap
        /\ chunks # << >> => chunks[Len(chunks)].end >= Len(text)
        /\ \A p \in 0..(Len(text) - 1) :
              \E i \in 1..Len(chunks) : chunks[i].start <= p /\ p < chunks[i].end

\* -------------------------------------------------- store and ask claims
\* C5: with one writer, stored records have pairwise distinct identifiers
\* (they are chunk_0, chunk_1, ... in insertion order), add_chunks keeps every
\* stored record and adds one record per chunk handed to it, and
\* clear_database leaves no record; so the count is the number of chunks
\* inserted since the last clear.
C5_AppendOnlyDistinctIds ==
    /\ [](/\ \A i \in 1..Len(collection) : collection[i].id = ChunkId(i - 1)
          /\ \A i, j \in 1..Len(collection) :
                i # j => collection[i].id # collection[j].id)
    /\ [][call'.op = "add_chunks" =>
            /\ Len(collection') = Len(collection) + Len(call'.chunks)
            /\ SubSeq(collection', 1, Len(collection)) = collection
            /\ ret'.value = Len(call'.chunks)]_vars
    /\ [][call'.op = "clear_database" => collection' = << >>]_vars

\* the same batch of n >= 1 chunks has been inserted twice: 2n records
C5_Witness ==
    /\ call.op = "add_chunks"
    /\ Len(call.chunks) >= 1
    /\ Len(collection) = 2 * Len(call.chunks)
    /\ \A i \in 1..Len(call.chunks) :
          /\ collection[i].document = call.chunks[i].text
          /\ collection[i + Len(call.chunks)].document = call.chunks[i].text
          /\ collection[i].id # collection[i + Len(call.chunks)].id

\* number of '[Source: ...' blocks in a context string (the stored texts hold
\* no '[')
NumBlocks(s) ==
    Cardinality({i \in 1..Len(s) : s[i] = "["})

\* C7: the context_chunks ask returns is the number of blocks in the context
\* it sent to the provider.
C7_ContextChunksUsed ==
    (call.op = "ask" /\ ret.status = "returned" /\ llm_calls # << >>)
        => ret.context_chunks = NumBlocks(llm_calls[1].context)

\* C8: ask on a store with zero records returns the fixed no-content answer
\* with no sources and context_chunks 0, and makes no provider call.
C8_EmptyStoreNoProviderCall ==
    [][(call'.op = "ask" /\ Len(collection) = 0) =>
            /\ ret' = NoContentAnswer
            /\ llm_calls' = << >>]_vars

\* ask ran on a cleared store, with provider openai
C8_Witness ==
    /\ call.op = "ask"
    /\ call.provider = "openai"
    /\ collection = << >>
    /\ exists
    /\ ret = NoContentAnswer
    /\ llm_calls = << >>

\* ------------------------------------------------- build_context claims
\* C6: the string build_context returns is never longer than max_chars,
\* separators included.
C6_ContextWithinBudget ==
    ctx_pc = "done" => Len(context) <= max_chars

\* --------------------------------------------- transcribe_folder claims
FilesOf(s) == [i \in 1..Len(s) |-> s[i].file]
InErrors(f) == \E i \in 1..Len(errors) : errors[i] = f
IsOk(c) == c.ok
NotInErrors(f) == ~InErrors(f)

\* every enumerated file has been attempted once, in order, and a failure
\* did not end the run
AllAttemptedOnce ==
    /\ tpc = "raised" => files = << >>
    /\ tpc = "done" => FilesOf(engine_calls) = files

\* C9 as stated: over a non-empty enumeration every file is attempted once in
\* sorted order whatever fails, and the list returned holds exactly the
\* transcripts of the files whose processing did not fail, in order.
C9_ReturnsUnfailedFiles ==
    /\ AllAttemptedOnce
    /\ tpc = "done" => FilesOf(results) = SelectSeq(files, NotInErrors)

\* C9 (amended): ... the list returned holds exactly the transcripts of the
\* files whose transcribe_file call did not fail, in order; a file whose
\* transcript could not be saved to output_dir is reported as an error and
\* its transcript is returned all the same.
C9_ReturnsTranscribedFiles ==
    /\ AllAttemptedOnce
    /\ tpc = "done" =>
          /\ results = [i \in 1..Len(SelectSeq(engine_calls, IsOk)) |->
                           Transcript(SelectSeq(engine_calls, IsOk)[i].file)]
          /\ \A i \in 1..Len(engine_calls) :
                ~engine_calls[i].ok => InErrors(engine_calls[i].file)
          /\ \A i \in 1..(Len(files) - 1) : files[i].stem < files[i + 1].stem

\* a finished run in which one file failed to transcribe, a later one was
\* transcribed but not saved, and a third went through
C9_Witness ==
    /\ tpc = "done"
    /\ Len(files) >= 3
    /\ \E i, j, k \in 1..Len(engine_calls) :
          /\ i < j
          /\ ~engine_calls[i].ok
          /\ engine_calls[j].ok /\ InErrors(engine_calls[j].file)
          /\ engine_calls[k].ok /\ ~InErrors(engine_calls[k].file)
    /\ Len(results) = 2

\* ------------------------------------------------- concurrent writers
\* the ids of writer w that the collection or another writer's add_chunks
\* in flight also holds
CollidingIds(w) ==
    {w_ids[w][i] : i \in 1..Len(w_ids[w])}
        \cap ({collection[j].id : j \in 1..Len(collection)}
              \cup UNION {{w_ids[o][i] : i \in 1..Len(w_ids[o])} :
                             o \in {x \in Writers : x # w /\ wpc[x] = "counted"}})

\* C11: with at most one add_chunks at a time, a writer that has read the
\* count never holds an identifier that is already stored or assigned;
\* without that, two writers read the same count before either adds and both
\* assign chunk_<count+i> (the state C11_Witness).
C11_OneWriterNoCollision ==
    exclusive => \A w \in Writers : wpc[w] = "counted" => CollidingIds(w) = {}

\* both writers have read the same count, neither has added, and they hold
\* the same identifier for different chunks
C11_Witness ==
    /\ ~exclusive
    /\ wpc[1] = "counted" /\ wpc[2] = "counted"
    /\ Len(w_ids[1]) >= 1 /\ Len(w_ids[2]) >= 1
    /\ w_ids[1][1] = ChunkId(Len(collection))
    /\ w_ids[2][1] = w_ids[1][1]
    /\ w_chunks[1][1] # w_chunks[2][1]

====
